---- MODULE Spec2Model ----
(***************************************************************************)
(* A model of the GNPS database plugin of gnps-calour                      *)
(* (src/gnpscalour/gnpscalour.py): the tolerance matcher                   *)
(* _find_close_annotation, the linking pass _prepare_gnps_ids, the         *)
(* summaries get_seq_annotation_strings, the term extraction               *)
(* get_feature_terms and the link resolver get_annotation_website.         *)
(*                                                                         *)
(* Floats are modelled as integers in fixed tolerance units, so that       *)
(* "strictly less than" keeps its meaning.  A table cell is a tagged       *)
(* record: a number, a string, or NaN (pandas' missing value).  Python     *)
(* positions are 0-based and stay 0-based here: Iloc(rows, i) = rows[i+1]. *)
(***************************************************************************)
EXTENDS Integers, Sequences, FiniteSets, TLC

\* ------------------------------------------------------------------ bounds
MaxRows == 2        \* rows of the reference table
MaxFeatures == 2    \* features of the host experiment
MaxMass == 2        \* largest parent mass of a reference row
MaxOpen == 1        \* browser tabs the model lets show_annotation_info open

\* ------------------------------------------------------------------- cells
NumCell(n) == [kind |-> "num", v |-> n, s |-> ""]
StrCell(t) == [kind |-> "str", v |-> 0, s |-> t]
NaNCell == [kind |-> "nan", v |-> 0, s |-> ""]

Abs(x) == IF x < 0 THEN -x ELSE x

\* The largest number any cell of the model holds: a query may lie one unit
\* beyond the largest row.
MaxNum == MaxMass + 1

\* Python's parse of a string as a number: the decimal numerals parse, any
\* other text does not.
IsNumeric(t) == \E n \in 0..MaxNum : ToString(n) = t
NumberOf(t) == CHOOSE n \in 0..MaxNum : ToString(n) = t

\* float(x): a number and NaN pass through, a numeral string parses, any other
\* string raises ValueError.
Float(c) ==
    IF c.kind = "str"
    THEN IF IsNumeric(c.s) THEN [ok |-> TRUE, c |-> NumCell(NumberOf(c.s))]
                           ELSE [ok |-> FALSE, c |-> c]
    ELSE [ok |-> TRUE, c |-> c]

\* pd.to_numeric(column, errors='coerce') on one cell: what does not parse
\* becomes NaN.
ToNumeric(c) == IF Float(c).ok THEN Float(c).c ELSE NaNCell

\* str(x) of a cell.
Str(c) ==
    CASE c.kind = "str" -> c.s
      [] c.kind = "num" -> ToString(c.v)
      [] OTHER -> "nan"

\* DataFrame.fillna(0) on one cell.
FillCell(c) == IF c.kind = "nan" THEN NumCell(0) ELSE c

\* ---------------------------------------------------------- sequences
Range(q) == {q[i] : i \in 1..Len(q)}

\* The elements of a finite set of integers in ascending order.
RECURSIVE SortedSeq(_)
SortedSeq(S) ==
    IF S = {} THEN <<>>
    ELSE LET m == CHOOSE x \in S : \A y \in S : x <= y
         IN <<m>> \o SortedSeq(S \ {m})

\* DataFrame.iloc[i]: the row at 0-based position i.
Iloc(rows, i) == rows[i + 1]

\* ------------------------------------------------------- reference table
\* A row of the GNPS cluster-info table.  AllFiles is a string, kept as a
\* tuple of characters so that split() can be modelled.
Row(mass, rt, allfiles, cluster, lib, org, comp, link) ==
    [parent_mass |-> mass, RTMean |-> rt, AllFiles |-> allfiles,
     cluster_index |-> cluster, LibraryID |-> lib, AllOrganisms |-> org,
     componentindex |-> comp, ProteoSAFeClusterLink |-> link]

mzfield == "parent mass"
rtfield == "RTMean"

Columns == {"parent mass", "RTMean", "AllFiles", "cluster index", "LibraryID",
            "AllOrganisms", "componentindex", "ProteoSAFeClusterLink"}

\* row[column] for the columns that hold cells.
Field(row, column) ==
    CASE column = "parent mass" -> row.parent_mass
      [] column = "RTMean" -> row.RTMean
      [] column = "cluster index" -> row.cluster_index
      [] column = "LibraryID" -> row.LibraryID
      [] column = "AllOrganisms" -> row.AllOrganisms
      [] column = "componentindex" -> row.componentindex
      [] OTHER -> row.ProteoSAFeClusterLink

\* A fill that also zeroes the masses that are present.
FillNaRowZeroingMass(r) ==
    [r EXCEPT !.parent_mass = NumCell(0), !.RTMean = FillCell(@),
              !.cluster_index = FillCell(@), !.LibraryID = FillCell(@),
              !.AllOrganisms = FillCell(@), !.componentindex = FillCell(@),
              !.ProteoSAFeClusterLink = FillCell(@)]

\* DataFrame.fillna(0, inplace=True): every missing cell of every column.
FillNaRow(r) ==
    [r EXCEPT !.parent_mass = FillCell(@), !.RTMean = FillCell(@),
              !.cluster_index = FillCell(@), !.LibraryID = FillCell(@),
              !.AllOrganisms = FillCell(@), !.componentindex = FillCell(@),
              !.ProteoSAFeClusterLink = FillCell(@)]
FillNa(rows) == [i \in 1..Len(rows) |-> FillNaRow(rows[i])]

\* The two pd.to_numeric assignments of the constructor.
CoerceRow(r) ==
    [r EXCEPT !.parent_mass = ToNumeric(@), !.RTMean = ToNumeric(@)]
CoerceTable(rows) == [i \in 1..Len(rows) |-> CoerceRow(rows[i])]

\* ------------------------------------------------- _find_close_annotation
\* The comparison with <= in place of <.
CloseInclusive(c, q, err) == c.kind = "num" /\ q.kind = "num" /\ Abs(c.v - q.v) <= err

\* One element of np.abs(column - q) < err.  A comparison with NaN is False.
Close(c, q, err) == c.kind = "num" /\ q.kind = "num" /\ Abs(c.v - q.v) < err

\* np.where(np.abs(rows[column] - q) < err)[0]: the 0-based positions, ascending.
WherePos(rows, column, q, err) ==
    SortedSeq({i \in 0..(Len(rows) - 1) : Close(Field(Iloc(rows, i), column), q, err)})

\* np.intersect1d(a, b): the sorted, unique values that are in both.
Intersect1d(a, b) == SortedSeq(Range(a) \cap Range(b))

\* The body of the try block (lines 133-139).  data is [none, rows]; exc says
\* that a statement raised, data is the table as the body left it.
FindTryBody(data, mz, rt, mzerr, rterr) ==
    IF ~Float(mz).ok \/ ~Float(rt).ok          \* float() raises ValueError
    THEN [exc |-> TRUE, pos |-> <<>>, data |-> data]
    ELSE IF data.none                          \* None.fillna: AttributeError
    THEN [exc |-> TRUE, pos |-> <<>>, data |-> data]
    ELSE LET filled == FillNa(data.rows)
             mzpos == WherePos(filled, mzfield, Float(mz).c, mzerr)
             rtpos == WherePos(filled, rtfield, Float(rt).c, rterr)
         IN [exc |-> FALSE, pos |-> Intersect1d(mzpos, rtpos),
             data |-> [none |-> FALSE, rows |-> filled]]

\* The try block without its handler: the exception reaches the caller.
FindNoExcept(data, mz, rt, mzerr, rterr) ==
    LET b == FindTryBody(data, mz, rt, mzerr, rterr)
    IN [raised |-> b.exc, pos |-> b.pos, data |-> b.data]

\* _find_close_annotation: the bare except turns any exception into
\* np.empty(0).
FindCloseAnnotation(data, mz, rt, mzerr, rterr) ==
    LET b == FindTryBody(data, mz, rt, mzerr, rterr)
    IN [raised |-> FALSE, pos |-> IF b.exc THEN <<>> ELSE b.pos, data |-> b.data]

\* ------------------------------------------------------ _prepare_gnps_ids
\* A dict as a function; d[k] = v.
EmptyDict == <<>>
Put(d, k, v) == [x \in (DOMAIN d) \cup {k} |-> IF x = k THEN v ELSE d[x]]

\* cid.split(':')[1] in place of [-1]: what lies between the first ':' and the
\* second.
SplitColonSecond(cid) ==
    LET at == {i \in 1..Len(cid) : cid[i] = ":"}
        first == CHOOSE i \in at : \A j \in at : i <= j
        rest == {i \in at : i > first}
    IN IF at = {} THEN cid
       ELSE SubSeq(cid, first + 1,
                   IF rest = {} THEN Len(cid)
                   ELSE (CHOOSE i \in rest : \A j \in rest : i <= j) - 1)

\* cid.split(':')[-1]: what follows the last ':' (the whole string if none).
SplitColonLast(cid) ==
    LET at == {i \in 1..Len(cid) : cid[i] = ":"}
    IN IF at = {} THEN cid
       ELSE SubSeq(cid, (CHOOSE i \in at : \A j \in at : j <= i) + 1, Len(cid))

\* cid.split('###')[0]: what precedes the first '###' (the whole string if none).
SplitHashFirst(cid) ==
    LET at == {i \in 1..(Len(cid) - 2) :
                 cid[i] = "#" /\ cid[i + 1] = "#" /\ cid[i + 2] = "#"}
    IN IF at = {} THEN cid
       ELSE SubSeq(cid, 1, (CHOOSE i \in at : \A j \in at : i <= j) - 1)

IsDigit(ch) == \E d \in 0..9 : ToString(d) = ch
DigitOf(ch) == CHOOSE d \in 0..9 : ToString(d) = ch

RECURSIVE DecimalValue(_)
DecimalValue(chars) ==
    IF chars = <<>> THEN 0
    ELSE 10 * DecimalValue(SubSeq(chars, 1, Len(chars) - 1)) + DigitOf(chars[Len(chars)])

\* int(s) of a string (PyInt): a non-empty run of digits gives its value, anything
\* else raises ValueError.
PyInt(chars) ==
    IF chars # <<>> /\ \A i \in 1..Len(chars) : IsDigit(chars[i])
    THEN [ok |-> TRUE, n |-> DecimalValue(chars)]
    ELSE [ok |-> FALSE, n |-> 0]

\* Lines 72-74: the metabolite id of one AllFiles value.
ParseAllFiles(cid) == PyInt(SplitHashFirst(SplitColonLast(cid)))

\* Line 78, Series.astype(int) on one 'cluster index' cell: a number casts,
\* NaN and text raise.
AsTypeInt(c) ==
    IF c.kind = "num" THEN [ok |-> TRUE, n |-> c.v] ELSE [ok |-> FALSE, n |-> 0]

\* Lines 68-78: gnps_metabolite_ids, one per row, each [ok, n].
GnpsMetaboliteIds(rows, use_gnps_id_from_AllFiles) ==
    [i \in 1..Len(rows) |->
        IF use_gnps_id_from_AllFiles THEN ParseAllFiles(rows[i].AllFiles)
                                     ELSE AsTypeInt(rows[i].cluster_index)]

\* Lines 79-81: gnps_metabolite_ids_pos; a later row overwrites an earlier
\* one that carries the same id.
GnpsMetaboliteIdsPos(ids) ==
    [c \in {ids[i].n : i \in 1..Len(ids)} |->
        (CHOOSE i \in 1..Len(ids) :
            ids[i].n = c /\ \A j \in 1..Len(ids) : ids[j].n = c => j <= i) - 1]

\* Lines 82-88: the loop over the feature keys, from feature i on.
RECURSIVE LinkDirectLoop(_, _, _, _)
LinkDirectLoop(fm, i, idspos, gnps_ids) ==
    IF i > Len(fm) THEN [raised |-> FALSE, at |-> <<>>, ids |-> gnps_ids]
    ELSE LET cmet == fm[i].key
         IN IF ~PyInt(cmet).ok                      \* int(cmet): ValueError
            THEN [raised |-> TRUE, at |-> cmet, ids |-> gnps_ids]
            ELSE IF PyInt(cmet).n \in DOMAIN idspos
            THEN LinkDirectLoop(fm, i + 1, idspos,
                                Put(gnps_ids, cmet, <<idspos[PyInt(cmet).n]>>))
            ELSE [raised |-> TRUE, at |-> cmet, ids |-> gnps_ids]

\* Lines 65-88: direct-identifier mode.  at names the feature key whose
\* lookup raised (the one the error message carries).
LinkDirect(fm, data, use_gnps_id_from_AllFiles) ==
    LET ids == GnpsMetaboliteIds(data.rows, use_gnps_id_from_AllFiles)
    IN IF \E i \in 1..Len(ids) : ~ids[i].ok
       THEN [raised |-> TRUE, at |-> <<>>, ids |-> EmptyDict, data |-> data]
       ELSE LET r == LinkDirectLoop(fm, 1, GnpsMetaboliteIdsPos(ids), EmptyDict)
            IN [raised |-> r.raised, at |-> r.at, ids |-> r.ids, data |-> data]

\* The call of line 94 without mzerr=mz_thresh, rterr=rt_thresh.
LinkOneIgnoringThresholds(data, feature, mz_thresh, rt_thresh) ==
    FindCloseAnnotation(data, feature.MZ, feature.RT, 1, 1)

\* The call of line 94 reaching a matcher that has no exception handler.
LinkOneNoExcept(data, feature, mz_thresh, rt_thresh) ==
    FindNoExcept(data, feature.MZ, feature.RT, mz_thresh, rt_thresh)

\* Line 94: the call that links one feature in tolerance mode.
LinkOne(data, feature, mz_thresh, rt_thresh) ==
    FindCloseAnnotation(data, feature.MZ, feature.RT, mz_thresh, rt_thresh)

\* Lines 92-95: tolerance mode, from feature i on; each call sees the table
\* as the call before it left it.
RECURSIVE LinkToleranceLoop(_, _, _, _, _, _)
LinkToleranceLoop(fm, i, data, gnps_ids, mz_thresh, rt_thresh) ==
    IF i > Len(fm) THEN [raised |-> FALSE, at |-> <<>>, ids |-> gnps_ids, data |-> data]
    ELSE LET r == LinkOne(data, fm[i], mz_thresh, rt_thresh)
         IN IF r.raised
            THEN [raised |-> TRUE, at |-> fm[i].key, ids |-> gnps_ids, data |-> r.data]
            ELSE LinkToleranceLoop(fm, i + 1, r.data, Put(gnps_ids, fm[i].key, r.pos),
                                   mz_thresh, rt_thresh)

\* The body of _prepare_gnps_ids after line 63.
PrepareGnpsIdsBody(fm, data, direct_ids, mz_thresh, rt_thresh, use_gnps_id_from_AllFiles) ==
    IF direct_ids THEN LinkDirect(fm, data, use_gnps_id_from_AllFiles)
    ELSE LinkToleranceLoop(fm, 1, data, EmptyDict, mz_thresh, rt_thresh)

\* ---------------------------------------------- get_seq_annotation_strings
Labels == <<"parent mass", "RTMean", "LibraryID", "AllOrganisms", "componentindex">>

\* The detail record of lines 171 and 173.
Annotation(feature, link) ==
    [annotationtype |-> "other", feature |-> feature, gnps_link |-> link]

\* Line 171: the five labelled lines of the first match, '%s: %s'.
DetailLines(rows, feature, pos) ==
    [i \in 1..Len(Labels) |->
        [annotation |-> Annotation(feature, Iloc(rows, pos[1]).ProteoSAFeClusterLink),
         text |-> Labels[i] \o ": " \o Str(Field(Iloc(rows, pos[1]), Labels[i]))]]

\* A summary whose per-match entries all describe the first match.
MatchLinesOfFirst(rows, feature, pos) ==
    [j \in 1..Len(pos) |->
        [annotation |-> Annotation(feature, Iloc(rows, pos[1]).ProteoSAFeClusterLink),
         text |-> Str(Iloc(rows, pos[1]).LibraryID)]]

\* Lines 172-173: one entry per match.
MatchLines(rows, feature, pos) ==
    [j \in 1..Len(pos) |->
        [annotation |-> Annotation(feature, Iloc(rows, pos[j]).ProteoSAFeClusterLink),
         text |-> Str(Iloc(rows, pos[j]).LibraryID)]]

\* Lines 168-174: shortdesc for the match set pos.
ShortDesc(rows, feature, pos) ==
    IF Len(pos) = 0 THEN <<>>
    ELSE DetailLines(rows, feature, pos) \o MatchLines(rows, feature, pos)

\* feature_metadata['_gnps_ids'][feature]: the column is absent until a
\* linking pass ran (KeyError), and holds None after a pass that raised.
\* cache is [state, ids].
CacheLookup(cache, feature) ==
    IF cache.state = "absent" THEN [ok |-> FALSE, none |-> FALSE, pos |-> <<>>]
    ELSE IF cache.state = "none" THEN [ok |-> TRUE, none |-> TRUE, pos |-> <<>>]
    ELSE IF feature \in DOMAIN cache.ids
    THEN [ok |-> TRUE, none |-> FALSE, pos |-> cache.ids[feature]]
    ELSE [ok |-> FALSE, none |-> FALSE, pos |-> <<>>]

\* get_seq_annotation_strings(feature).
GetSeqAnnotationStrings(data, cache, known, feature) ==
    IF data.none THEN [raised |-> FALSE, result |-> <<>>]
    ELSE IF feature \notin known \/ ~CacheLookup(cache, feature).ok    \* KeyError
    THEN [raised |-> TRUE, result |-> <<>>]
    ELSE IF CacheLookup(cache, feature).none            \* len(None): TypeError
    THEN [raised |-> TRUE, result |-> <<>>]
    ELSE [raised |-> FALSE,
          result |-> ShortDesc(data.rows, feature, CacheLookup(cache, feature).pos)]

\* ------------------------------------------------------- get_feature_terms
IsNA(c) == c.kind = "str" /\ c.s = "N/A"

\* The terms with 'N/A' kept as a term.
TermsReportingNA(rows, pos, term_type) ==
    [type |-> "dict", elems |-> {Field(Iloc(rows, pos[j]), term_type) : j \in 1..Len(pos)}]

\* Lines 243-256 for one feature: the dict of the values that are not 'N/A',
\* or the list ['na'] when that dict is empty and an 'N/A' was seen.
TermsOf(rows, pos, term_type) ==
    LET vals == {Field(Iloc(rows, pos[j]), term_type) : j \in 1..Len(pos)}
        cterms == {c \in vals : ~IsNA(c)}
        foundna == \E c \in vals : IsNA(c)
    IN IF cterms = {} /\ foundna
       THEN [type |-> "list", elems |-> {StrCell("na")}]
       ELSE [type |-> "dict", elems |-> cterms]

\* get_feature_terms(features, term_type); features is a list of keys.
GetFeatureTerms(data, cache, known, features, term_type) ==
    IF data.none                         \* None.columns: AttributeError
    THEN [raised |-> TRUE, result |-> EmptyDict]
    ELSE IF term_type \notin Columns     \* line 238: ValueError
    THEN [raised |-> TRUE, result |-> EmptyDict]
    ELSE IF \E i \in 1..Len(features) :
               \/ features[i] \notin known
               \/ ~CacheLookup(cache, features[i]).ok
               \/ CacheLookup(cache, features[i]).none
    THEN [raised |-> TRUE, result |-> EmptyDict]
    ELSE [raised |-> FALSE,
          result |-> [f \in Range(features) |->
                        TermsOf(data.rows, CacheLookup(cache, f).pos, term_type)]]

\* -------------------------------------------------- get_annotation_website
NoLink == [none |-> TRUE, url |-> ""]

\* annotation['gnps_link'] as the legacy module reads it: KeyError without
\* the key.
WebsiteRaisingOnMissing(annotation) ==
    IF "gnps_link" \notin DOMAIN annotation THEN [raised |-> TRUE, link |-> NoLink]
    ELSE IF annotation.gnps_link.kind # "str" THEN [raised |-> TRUE, link |-> NoLink]
    ELSE [raised |-> FALSE,
          link |-> [none |-> FALSE, url |-> annotation.gnps_link.s \o "&show=True"]]

\* get_annotation_website(annotation): None without the 'gnps_link' key; the
\* concatenation raises TypeError when the stored link is not a string.
GetAnnotationWebsite(annotation) ==
    IF "gnps_link" \notin DOMAIN annotation THEN [raised |-> FALSE, link |-> NoLink]
    ELSE IF annotation.gnps_link.kind # "str" THEN [raised |-> TRUE, link |-> NoLink]
    ELSE [raised |-> FALSE,
          link |-> [none |-> FALSE, url |-> annotation.gnps_link.s \o "&show=True"]]

\* ------------------------------------------------------------ constructor
\* GNPS.__init__ of the legacy module src/gnpscalour.py (lines 14-15): no
\* table, no plugin.
LegacyConstructor(has_table) ==
    [raised |-> ~has_table, gnps_data |-> IF has_table THEN "table" ELSE "unset"]

\* GNPS.__init__ (lines 33-44): without a table it warns, sets gnps_data to
\* None and returns before self.exp is assigned.
Constructor(has_table) ==
    [raised |-> FALSE, gnps_data |-> IF has_table THEN "table" ELSE "None"]

\* ------------------------------------------------------------------ state
VARIABLES
    pc,                \* "start": no plugin yet; "idle"; "returned": a call has
                       \* returned or raised and the host holds its outcome;
                       \* "failed": the constructor raised
    exp_databases,     \* 'gnpscalour' in exp.databases
    gnps_table,        \* the rows of exp.databases['gnpscalour']['metabolomics_gnps_table']
    gnps_data,         \* self.gnps_data: "unset", "None" or "table" (that same table)
    feature_metadata,  \* exp.feature_metadata: the features [key, MZ, RT], in index order
    gnps_ids,          \* the column feature_metadata['_gnps_ids']: [state, ids]
    last_link,         \* the arguments of the linking pass that wrote gnps_ids
    call,              \* the last call: [op, args, raised, result]
    browser            \* the addresses webbrowser.open was given

vars == <<pc, exp_databases, gnps_table, gnps_data, feature_metadata, gnps_ids,
          last_link, call, browser>>

\* self.gnps_data as the operators above take it.
Data == [none |-> gnps_data # "table", rows |-> gnps_table]

\* feature_metadata.index.values
Keys(fm) == {fm[i].key : i \in 1..Len(fm)}

NoCall == [op |-> "", args |-> <<>>, raised |-> FALSE, result |-> <<>>]
NoCache == [state |-> "absent", ids |-> EmptyDict]
NoneCache == [state |-> "none", ids |-> EmptyDict]
NoLinkPass == [mode |-> "none", mz_thresh |-> 0, rt_thresh |-> 0]

\* ----------------------------------------------------------------- inputs
Tolerances == 1..2

QueryMass == {NumCell(n) : n \in 0..MaxNum} \cup {StrCell("x"), NaNCell}
QueryRt == {NumCell(0), NumCell(1)}

UnknownKey == <<"9">>
TermTypes == {"LibraryID", "componentindex", "no such column"}

\* The key of the feature at index position i: "1", "2", ...
KeyAt(i) == <<ToString(i)>>

\* The values of a row at position i that a family of tables does not vary.
DefaultAllFiles(i) == <<"f", ":", ToString(i), "#", "#", "#">>
DefaultLink(i) == StrCell("http://gnps/cluster" \o ToString(i))
DefaultRow(i) ==
    Row(NumCell(1), NumCell(1), DefaultAllFiles(i), NumCell(i), StrCell("libA"),
        StrCell("org"), NumCell(i), DefaultLink(i))

\* The sequences of at most max elements whose element at position i is in
\* choices[i].
SequencesOf(choices, max) ==
    UNION {{t \in [1..n -> UNION {choices[i] : i \in 1..n}] :
               \A i \in 1..n : t[i] \in choices[i]} : n \in 0..max}

\* The state before the plugin is constructed, for a host that carries one of
\* the given tables (or none) and one of the given feature tables.
InitWith(tables, features) ==
    /\ pc = "start"
    /\ exp_databases \in BOOLEAN
    /\ gnps_table \in (IF exp_databases THEN tables ELSE {<<>>})
    /\ gnps_data = "unset"
    /\ feature_metadata \in features
    /\ gnps_ids = NoCache
    /\ last_link = NoLinkPass
    /\ call = NoCall
    /\ browser = <<>>

\* -------------------------------------------------------------- families
\* Masses and retention times as the host reads them from the GNPS file: text
\* that is no number is what pd.to_numeric coerces to NaN.
RawMass == {NumCell(n) : n \in 1..MaxMass} \cup {StrCell("bad")}
RawRt == {NumCell(1), StrCell("bad")}

\* Tables that vary parent mass and RTMean, and hosts with at most one feature,
\* whose mass and retention time are the query.
MatchRowsAt(i) ==
    {[DefaultRow(i) EXCEPT !.parent_mass = m, !.RTMean = r] : m \in RawMass, r \in RawRt}
MatchFeatures ==
    {<<>>} \cup {<<[key |-> KeyAt(1), MZ |-> m, RT |-> r]>> : m \in QueryMass, r \in QueryRt}

\* Small tables with a missing mass, and features that vary MZ and RT.
LinkRowsAt(i) ==
    {[DefaultRow(i) EXCEPT !.parent_mass = m] : m \in {NumCell(1), StrCell("bad")}}
LinkFeaturesAt(i) ==
    {[key |-> KeyAt(i), MZ |-> m, RT |-> NumCell(1)] :
        m \in {NumCell(0), NumCell(2), StrCell("x")}}
        \cup {[key |-> KeyAt(i), MZ |-> NumCell(1), RT |-> StrCell("x")]}

SmallFeaturesAt(i) ==
    {[key |-> KeyAt(i), MZ |-> m, RT |-> NumCell(1)] : m \in {NumCell(0), StrCell("x")}}

\* AllFiles values: "abc:42###xyz", "f:4###", "a:b:7###" (a ':' in the
\* prefix), "f:4###g:7###" (two files: a ':' in the suffix) and "f:x###" (no
\* integer).
AllFilesValues ==
    { <<"a", "b", "c", ":", "4", "2", "#", "#", "#", "x", "y", "z">>,
      <<"f", ":", "4", "#", "#", "#">>,
      <<"a", ":", "b", ":", "7", "#", "#", "#">>,
      <<"f", ":", "4", "#", "#", "#", "g", ":", "7", "#", "#", "#">>,
      <<"f", ":", "x", "#", "#", "#">> }

\* Tables that vary AllFiles and 'cluster index', and features that vary
\* their keys.
IdRowsAt(i) ==
    {[DefaultRow(i) EXCEPT !.AllFiles = a, !.cluster_index = NumCell(4)] :
        a \in AllFilesValues}
        \cup {[DefaultRow(i) EXCEPT !.cluster_index = c] : c \in {NumCell(7), NaNCell}}
IdFeaturesAt(i) ==
    {[key |-> k, MZ |-> NumCell(1), RT |-> NumCell(1)] :
        k \in (IF i = 1 THEN {<<"4">>, <<"4", "2">>}
                        ELSE {<<"7">>, <<"x", ToString(i)>>})}

\* Tables that vary LibraryID, whose first row has mass 2 and whose other rows
\* have mass 1, and features that match some rows, all rows or none: within
\* 2, mass 0 matches the rows after the first and mass 1 matches every row.
TermRowsAt(i) ==
    {[DefaultRow(i) EXCEPT !.LibraryID = l,
                           !.parent_mass = IF i = 1 THEN NumCell(2) ELSE NumCell(1)] :
        l \in {StrCell("N/A"), StrCell("libA"), StrCell("libB"), NaNCell}}
TermFeaturesAt(i) ==
    {[key |-> KeyAt(i), MZ |-> m, RT |-> NumCell(1)] :
        m \in {NumCell(0), NumCell(1)}}

\* ---------------------------------------------------------------- actions
\* GNPS(exp): the constructor.
GNPS_init ==
    /\ pc = "start"
    /\ LET c == Constructor(exp_databases)
       IN /\ pc' = IF c.raised THEN "failed" ELSE "returned"
          /\ gnps_data' = c.gnps_data
          /\ gnps_table' = IF c.gnps_data = "table" THEN CoerceTable(gnps_table)
                                                    ELSE gnps_table
          /\ call' = [op |-> "__init__", args |-> <<>>, raised |-> c.raised,
                      result |-> <<>>]
    /\ UNCHANGED <<exp_databases, feature_metadata, gnps_ids, last_link, browser>>

\* _find_close_annotation(mz, rt, mzerr, rterr), called by the host.
FindClose(mz, rt, mzerr, rterr) ==
    /\ pc = "idle"
    /\ LET r == FindCloseAnnotation(Data, mz, rt, mzerr, rterr)
       IN /\ gnps_table' = r.data.rows
          /\ call' = [op |-> "_find_close_annotation",
                      args |-> [mz |-> mz, rt |-> rt, mzerr |-> mzerr, rterr |-> rterr],
                      raised |-> r.raised, result |-> r.pos]
    /\ pc' = "returned"
    /\ UNCHANGED <<exp_databases, gnps_data, feature_metadata, gnps_ids, last_link,
                   browser>>

\* _prepare_gnps_ids(direct_ids, mz_thresh, rt_thresh, use_gnps_id_from_AllFiles).
\* Without a table self.exp was never assigned and line 63 raises
\* AttributeError; otherwise line 63 sets the column to None, and only a pass
\* that does not raise reaches line 96.
PrepareGnpsIds(direct_ids, mz_thresh, rt_thresh, use_gnps_id_from_AllFiles) ==
    /\ pc = "idle"
    /\ LET args == [direct_ids |-> direct_ids, mz_thresh |-> mz_thresh,
                    rt_thresh |-> rt_thresh,
                    use_gnps_id_from_AllFiles |-> use_gnps_id_from_AllFiles]
           r == PrepareGnpsIdsBody(feature_metadata, Data, direct_ids, mz_thresh,
                                   rt_thresh, use_gnps_id_from_AllFiles)
       IN IF gnps_data # "table"
          THEN /\ call' = [op |-> "_prepare_gnps_ids", args |-> args, raised |-> TRUE,
                           result |-> <<>>]
               /\ UNCHANGED <<gnps_table, gnps_ids, last_link>>
          ELSE /\ call' = [op |-> "_prepare_gnps_ids", args |-> args,
                           raised |-> r.raised, result |-> r.at]
               /\ gnps_table' = r.data.rows
               /\ gnps_ids' = IF r.raised THEN NoneCache
                                          ELSE [state |-> "set", ids |-> r.ids]
               /\ last_link' = IF r.raised THEN NoLinkPass
                                ELSE [mode |-> IF direct_ids THEN "direct" ELSE "tolerance",
                                      mz_thresh |-> mz_thresh, rt_thresh |-> rt_thresh]
    /\ pc' = "returned"
    /\ UNCHANGED <<exp_databases, gnps_data, feature_metadata, browser>>

\* get_seq_annotation_strings(feature).
SeqAnnotationStrings(feature) ==
    /\ pc = "idle"
    /\ LET r == GetSeqAnnotationStrings(Data, gnps_ids, Keys(feature_metadata), feature)
       IN call' = [op |-> "get_seq_annotation_strings", args |-> feature,
                   raised |-> r.raised, result |-> r.result]
    /\ pc' = "returned"
    /\ UNCHANGED <<exp_databases, gnps_table, gnps_data, feature_metadata, gnps_ids,
                   last_link, browser>>

\* get_feature_terms(features, term_type=term_type).
FeatureTerms(features, term_type) ==
    /\ pc = "idle"
    /\ LET r == GetFeatureTerms(Data, gnps_ids, Keys(feature_metadata), features,
                                term_type)
       IN call' = [op |-> "get_feature_terms",
                   args |-> [features |-> features, term_type |-> term_type],
                   raised |-> r.raised, result |-> r.result]
    /\ pc' = "returned"
    /\ UNCHANGED <<exp_databases, gnps_table, gnps_data, feature_metadata, gnps_ids,
                   last_link, browser>>

\* get_annotation_website(annotation), called by the host.
AnnotationWebsite(annotation) ==
    /\ pc = "idle"
    /\ LET r == GetAnnotationWebsite(annotation)
       IN call' = [op |-> "get_annotation_website", args |-> annotation,
                   raised |-> r.raised, result |-> r.link]
    /\ pc' = "returned"
    /\ UNCHANGED <<exp_databases, gnps_table, gnps_data, feature_metadata, gnps_ids,
                   last_link, browser>>

\* show_annotation_info(annotation): no link, no navigation.
ShowAnnotationInfo(annotation) ==
    /\ pc = "idle"
    /\ LET r == GetAnnotationWebsite(annotation)
           opens == ~r.raised /\ ~r.link.none
       IN /\ opens => Len(browser) < MaxOpen
          /\ browser' = IF opens THEN Append(browser, r.link.url) ELSE browser
          /\ call' = [op |-> "show_annotation_info", args |-> annotation,
                      raised |-> r.raised, result |-> r.link]
    /\ pc' = "returned"
    /\ UNCHANGED <<exp_databases, gnps_table, gnps_data, feature_metadata, gnps_ids,
                   last_link>>

\* The host has taken the outcome of the call; the plugin waits for the next.
Return ==
    /\ pc = "returned"
    /\ pc' = "idle"
    /\ call' = NoCall
    /\ UNCHANGED <<exp_databases, gnps_table, gnps_data, feature_metadata, gnps_ids,
                   last_link, browser>>

\* The detail records a host may hand in: the ones the summaries carry, and
\* one without a link.
Annotations ==
    {Annotation(KeyAt(1), gnps_table[i].ProteoSAFeClusterLink) : i \in 1..Len(gnps_table)}
        \cup {[annotationtype |-> "other", feature |-> KeyAt(1)]}

\* The queries a host may match directly: the mass and retention time of one
\* of its features, or a retention time that is no number.
Queries ==
    {<<feature_metadata[i].MZ, feature_metadata[i].RT>> : i \in 1..Len(feature_metadata)}
        \cup {<<NumCell(1), StrCell("x")>>}

\* The feature lists a host may ask terms for.
FeatureLists ==
    {<<>>, <<UnknownKey>>, [i \in 1..Len(feature_metadata) |-> feature_metadata[i].key]}
        \cup {<<k>> : k \in Keys(feature_metadata)}

\* The operations of the matcher alone.
NextMatch ==
    \/ GNPS_init
    \/ \E q \in Queries, mzerr \in Tolerances, rterr \in Tolerances :
          FindClose(q[1], q[2], mzerr, rterr)
    \/ Return

\* Direct-identifier linking alone.  In this mode the thresholds are not
\* read: the host leaves them at one value.
NextIds ==
    \/ GNPS_init
    \/ \E use_gnps_id_from_AllFiles \in BOOLEAN :
          PrepareGnpsIds(TRUE, 1, 1, use_gnps_id_from_AllFiles)
    \/ Return

\* Linking in either mode, and the summaries read from the cache.
NextLink ==
    \/ GNPS_init
    \/ \E mz_thresh \in Tolerances, rt_thresh \in Tolerances :
          PrepareGnpsIds(FALSE, mz_thresh, rt_thresh, TRUE)
    \/ \E use_gnps_id_from_AllFiles \in BOOLEAN :
          PrepareGnpsIds(TRUE, 1, 1, use_gnps_id_from_AllFiles)
    \/ \E feature \in Keys(feature_metadata) \cup {UnknownKey} :
          SeqAnnotationStrings(feature)
    \/ Return

\* Linking, summaries and terms.
NextTerms ==
    \/ GNPS_init
    \/ \E mz_thresh \in Tolerances, rt_thresh \in Tolerances :
          PrepareGnpsIds(FALSE, mz_thresh, rt_thresh, TRUE)
    \/ \E use_gnps_id_from_AllFiles \in BOOLEAN :
          PrepareGnpsIds(TRUE, 1, 1, use_gnps_id_from_AllFiles)
    \/ \E feature \in Keys(feature_metadata) \cup {UnknownKey} :
          SeqAnnotationStrings(feature)
    \/ \E features \in FeatureLists, term_type \in TermTypes :
          FeatureTerms(features, term_type)
    \/ Return

\* Every operation of the plugin.
Next ==
    \/ GNPS_init
    \/ \E q \in Queries, mzerr \in Tolerances, rterr \in Tolerances :
          FindClose(q[1], q[2], mzerr, rterr)
    \/ \E mz_thresh \in Tolerances, rt_thresh \in Tolerances :
          PrepareGnpsIds(FALSE, mz_thresh, rt_thresh, TRUE)
    \/ \E use_gnps_id_from_AllFiles \in BOOLEAN :
          PrepareGnpsIds(TRUE, 1, 1, use_gnps_id_from_AllFiles)
    \/ \E feature \in Keys(feature_metadata) \cup {UnknownKey} :
          SeqAnnotationStrings(feature)
    \/ \E features \in FeatureLists, term_type \in TermTypes :
          FeatureTerms(features, term_type)
    \/ \E annotation \in Annotations : AnnotationWebsite(annotation)
    \/ \E annotation \in Annotations : ShowAnnotationInfo(annotation)
    \/ Return

\* Every operation, on small tables with a missing mass and features whose
\* mass is a number or is not.
Init ==
    InitWith(SequencesOf([i \in 1..MaxRows |-> LinkRowsAt(i)], MaxRows),
             SequencesOf([i \in 1..MaxFeatures |-> SmallFeaturesAt(i)], MaxFeatures))
Spec == Init /\ [][Next]_vars

\* Tables and queries that vary mass and retention time, the matcher alone.
InitMatch ==
    InitWith(SequencesOf([i \in 1..MaxRows |-> MatchRowsAt(i)], MaxRows), MatchFeatures)
SpecMatch == InitMatch /\ [][NextMatch]_vars

\* Small tables, features that vary mass and retention time.
InitLink ==
    InitWith(SequencesOf([i \in 1..MaxRows |-> LinkRowsAt(i)], MaxRows),
             SequencesOf([i \in 1..MaxFeatures |-> LinkFeaturesAt(i)], MaxFeatures))
SpecLink == InitLink /\ [][NextLink]_vars

\* Tables that vary their identifiers, features that vary their keys.
InitIds ==
    InitWith(SequencesOf([i \in 1..MaxRows |-> IdRowsAt(i)], MaxRows),
             SequencesOf([i \in 1..MaxFeatures |-> IdFeaturesAt(i)], MaxFeatures))
SpecIds == InitIds /\ [][NextIds]_vars

\* Tables that vary LibraryID.
InitTerms ==
    InitWith(SequencesOf([i \in 1..MaxRows |-> TermRowsAt(i)], MaxRows),
             SequencesOf([i \in 1..MaxFeatures |-> TermFeaturesAt(i)], MaxFeatures))
SpecTerms == InitTerms /\ [][NextTerms]_vars

\* ================================================================= claims
\* The row at 0-based position i of the table as it is now.
RowAt(i) == gnps_table[i + 1]

\* x lies strictly within err of y.
StrictlyWithin(x, y, err) == x - y < err /\ y - x < err

\* The last call was _find_close_annotation on a loaded table with a mass and
\* a retention time that convert to float.
FindReturned ==
    /\ call.op = "_find_close_annotation"
    /\ gnps_data = "table"
    /\ Float(call.args.mz).ok /\ Float(call.args.rt).ok

\* Whether row i lies within both tolerances of the query of the last call.
\* Nothing lies within a tolerance of a NaN query.
RowMatchesQuery(i) ==
    LET mz == Float(call.args.mz).c
        rt == Float(call.args.rt).c
    IN /\ mz.kind = "num" /\ rt.kind = "num"
       /\ StrictlyWithin(RowAt(i).parent_mass.v, mz.v, call.args.mzerr)
       /\ StrictlyWithin(RowAt(i).RTMean.v, rt.v, call.args.rterr)

\* C1: for every table, every query that converts to float and every pair of
\* tolerances, _find_close_annotation returns exactly the positions i with
\* |mass_i - mass| < mzerr and |rt_i - rt| < rterr, both strict, in ascending
\* order and without repetition.  mass_i and rt_i are the row's values as the
\* data model has them, a missing value being the sentinel 0.
C1_ExactMatchSet ==
    FindReturned =>
        /\ ~call.raised
        /\ Range(call.result) = {i \in 0..(Len(gnps_table) - 1) : RowMatchesQuery(i)}
        /\ \A j, k \in 1..Len(call.result) : j < k => call.result[j] < call.result[k]

\* A query with a row at distance exactly mzerr, inside the retention-time
\* window, left out, and another row returned.
C1_Witness ==
    /\ FindReturned
    /\ call.result # <<>>
    /\ \E i \in 0..(Len(gnps_table) - 1) :
          /\ Abs(RowAt(i).parent_mass.v - Float(call.args.mz).c.v) = call.args.mzerr
          /\ StrictlyWithin(RowAt(i).RTMean.v, Float(call.args.rt).c.v, call.args.rterr)
          /\ i \notin Range(call.result)

\* C2: _find_close_annotation never raises; with a mass or retention time that
\* does not convert to float, with no table loaded (gnps_data is None) or
\* with an empty table it returns the empty match set.
C2_NeverRaises ==
    call.op = "_find_close_annotation" =>
        /\ ~call.raised
        /\ ( \/ ~Float(call.args.mz).ok
             \/ ~Float(call.args.rt).ok
             \/ gnps_data = "None"
             \/ Len(gnps_table) = 0 ) => call.result = <<>>

\* A mass that is no number, queried on a table that has rows.
C2_Witness ==
    /\ call.op = "_find_close_annotation"
    /\ ~Float(call.args.mz).ok
    /\ gnps_data = "table" /\ Len(gnps_table) > 0
    /\ call.result = <<>> /\ ~call.raised

\* The feature at index position i, and the match set the cache holds for it.
FeatureAt(i) == feature_metadata[i]
Cached(i) == gnps_ids.ids[FeatureAt(i).key]

\* The last call was a tolerance-mode _prepare_gnps_ids on a loaded table.
TolerancePassReturned ==
    /\ call.op = "_prepare_gnps_ids"
    /\ ~call.args.direct_ids
    /\ gnps_data = "table"

\* Whether row r lies within both thresholds of the last pass of feature i,
\* whose mass and retention time convert to float.
RowMatchesFeature(r, i, mz_thresh, rt_thresh) ==
    LET mz == Float(FeatureAt(i).MZ).c
        rt == Float(FeatureAt(i).RT).c
    IN /\ mz.kind = "num" /\ rt.kind = "num"
       /\ StrictlyWithin(RowAt(r).parent_mass.v, mz.v, mz_thresh)
       /\ StrictlyWithin(RowAt(r).RTMean.v, rt.v, rt_thresh)

Unparseable(i) == ~Float(FeatureAt(i).MZ).ok \/ ~Float(FeatureAt(i).RT).ok

SummarizedFeature == CHOOSE i \in 1..Len(feature_metadata) : FeatureAt(i).key = call.args

\* get_seq_annotation_strings returned for a feature of the host, after a
\* linking pass that completed.
SummaryReturned ==
    /\ call.op = "get_seq_annotation_strings"
    /\ ~call.raised
    /\ gnps_data = "table"
    /\ gnps_ids.state = "set"
    /\ call.args \in Keys(feature_metadata)

\* The summary built from matching the feature directly, one call of
\* _find_close_annotation with the thresholds of the pass.
DirectSummary ==
    LET f == FeatureAt(SummarizedFeature)
    IN ShortDesc(gnps_table, f.key,
                 FindCloseAnnotation(Data, f.MZ, f.RT, last_link.mz_thresh,
                                     last_link.rt_thresh).pos)

\* C7 as stated: after any linking pass, the summary of a feature is the
\* summary of matching that feature directly with _find_close_annotation.
C7_Original == SummaryReturned => call.result = DirectSummary

\* C7: after a linking pass in tolerance mode, the summary of each feature is
\* the summary built from matching that feature directly with
\* _find_close_annotation under the thresholds of the pass; the cache does
\* not alter results.
C7_RoundTripTolerance ==
    (SummaryReturned /\ last_link.mode = "tolerance") => call.result = DirectSummary

\* A summary with entries, read from a cache that a tolerance pass wrote.
C7_Witness ==
    /\ SummaryReturned /\ last_link.mode = "tolerance"
    /\ call.result # <<>>

ReadOnlyOps == {"get_seq_annotation_strings", "get_feature_terms",
                "get_annotation_website", "show_annotation_info"}

\* Row b is row a with its missing values, and nothing else, replaced by 0.
CellFilled(a, b) == IF a.kind = "nan" THEN b = NumCell(0) ELSE b = a
RowFilled(a, b) ==
    /\ CellFilled(a.parent_mass, b.parent_mass)
    /\ CellFilled(a.RTMean, b.RTMean)
    /\ CellFilled(a.cluster_index, b.cluster_index)
    /\ CellFilled(a.LibraryID, b.LibraryID)
    /\ CellFilled(a.AllOrganisms, b.AllOrganisms)
    /\ CellFilled(a.componentindex, b.componentindex)
    /\ CellFilled(a.ProteoSAFeClusterLink, b.ProteoSAFeClusterLink)
    /\ b.AllFiles = a.AllFiles

\* C10 as stated: once the plugin is constructed, only _prepare_gnps_ids
\* changes the cache, and no operation changes a row of the table.
C10_Original ==
    [][pc = "idle" =>
          /\ (gnps_ids' # gnps_ids => call'.op = "_prepare_gnps_ids")
          /\ gnps_table' = gnps_table]_vars

\* C10: once the plugin is constructed, only _prepare_gnps_ids changes the
\* cache; get_seq_annotation_strings, get_feature_terms and
\* get_annotation_website change neither the cache nor the table; and the
\* only change any operation makes to the table is the one
\* _find_close_annotation makes, directly or within a tolerance-mode pass:
\* every missing value is replaced by 0, every other value is kept.
C10_FrameExceptFill ==
    [][pc = "idle" =>
          /\ (gnps_ids' # gnps_ids => call'.op = "_prepare_gnps_ids")
          /\ (call'.op \in ReadOnlyOps => gnps_table' = gnps_table)
          /\ (call'.op = "_prepare_gnps_ids" /\ call'.args.direct_ids
                  => gnps_table' = gnps_table)
          /\ Len(gnps_table') = Len(gnps_table)
          /\ \A i \in 1..Len(gnps_table) :
                gnps_table'[i] = gnps_table[i] \/ RowFilled(gnps_table[i], gnps_table'[i])
          /\ gnps_data' = gnps_data
          /\ feature_metadata' = feature_metadata]_vars

\* _find_close_annotation has replaced a missing mass by 0 and the cache is
\* as it was: still absent.
C10_Witness ==
    /\ call.op = "_find_close_annotation"
    /\ gnps_ids = NoCache
    /\ \E i \in 1..Len(gnps_table) : gnps_table[i].parent_mass = NumCell(0)

\* cid reads prefix ':' id '###' suffix, with the ':' at i, the '###' at j and
\* a non-empty run of digits between them.
ReadsAs(cid, i, j) ==
    /\ i \in 1..Len(cid) /\ j \in (i + 2)..(Len(cid) - 2)
    /\ cid[i] = ":"
    /\ cid[j] = "#" /\ cid[j + 1] = "#" /\ cid[j + 2] = "#"
    /\ \A k \in (i + 1)..(j - 1) : IsDigit(cid[k])

\* The middle tokens of cid, over every way to read it as prefix:id###suffix.
MiddleTokens(cid) ==
    {DecimalValue(SubSeq(cid, p[1] + 1, p[2] - 1)) :
        p \in {q \in (1..Len(cid)) \X (1..Len(cid)) : ReadsAs(cid, q[1], q[2])}}

\* The middle tokens of cid read with its last ':' as the separator.
LastColonTokens(cid) ==
    {DecimalValue(SubSeq(cid, p[1] + 1, p[2] - 1)) :
        p \in {q \in (1..Len(cid)) \X (1..Len(cid)) :
                 /\ ReadsAs(cid, q[1], q[2])
                 /\ \A k \in (q[1] + 1)..Len(cid) : cid[k] # ":"}}

\* The last call was a direct-identifier _prepare_gnps_ids over AllFiles on a
\* loaded table.
DirectPassReturned ==
    /\ call.op = "_prepare_gnps_ids"
    /\ call.args.direct_ids /\ call.args.use_gnps_id_from_AllFiles
    /\ gnps_data = "table"

\* What a direct pass must have done, given for each row position the
\* identifiers the row carries: every feature key, read as an integer, is
\* linked to one row that carries it, or the pass raised at the first key that
\* no row carries.
DirectPassLinks(idsOf) ==
    LET carried(i, r) == /\ PyInt(FeatureAt(i).key).ok
                         /\ PyInt(FeatureAt(i).key).n \in idsOf[r]
        missing == {i \in 1..Len(feature_metadata) :
                      ~\E r \in 0..(Len(gnps_table) - 1) : carried(i, r)}
    IN IF missing = {}
       THEN /\ ~call.raised
            /\ gnps_ids.state = "set"
            /\ DOMAIN gnps_ids.ids = Keys(feature_metadata)
            /\ \A i \in 1..Len(feature_metadata) :
                  \E r \in 0..(Len(gnps_table) - 1) : Cached(i) = <<r>> /\ carried(i, r)
       ELSE /\ call.raised
            /\ call.result = FeatureAt(CHOOSE i \in missing : \A j \in missing : i <= j).key
            /\ gnps_ids = NoneCache

\* C4 as stated: an identifier prefix:id###suffix is parsed to its middle
\* token id, every feature key is linked to the single row that carries it,
\* and the pass raises as soon as a key has no such row.
C4_Original ==
    (DirectPassReturned /\ \A r \in 0..(Len(gnps_table) - 1) :
                              MiddleTokens(RowAt(r).AllFiles) # {})
        => DirectPassLinks([r \in 0..(Len(gnps_table) - 1) |->
                               MiddleTokens(RowAt(r).AllFiles)])

\* C4: in direct-identifier mode each reference identifier is parsed to the
\* integer between its last ':' and the '###' that follows it (prefix:id###suffix
\* parses to id when suffix holds no ':'; "abc:42###xyz" parses to 42), every
\* feature key, read as an integer, is linked to a single row that carries
\* that identifier, and the pass raises as soon as a feature key has no such
\* row.
C4_DirectLinksByLastColon ==
    (DirectPassReturned /\ \A r \in 0..(Len(gnps_table) - 1) :
                              LastColonTokens(RowAt(r).AllFiles) # {})
        => DirectPassLinks([r \in 0..(Len(gnps_table) - 1) |->
                               LastColonTokens(RowAt(r).AllFiles)])

\* Feature 42 linked to the row whose identifier is "abc:42###xyz", in a
\* table whose other row carries two files.
C4_Witness ==
    /\ DirectPassReturned /\ ~call.raised
    /\ Len(gnps_table) = 2
    /\ \E i \in 1..Len(feature_metadata) :
          /\ FeatureAt(i).key = <<"4", "2">>
          /\ Len(Cached(i)) = 1
          /\ RowAt(Cached(i)[1]).AllFiles =
                <<"a", "b", "c", ":", "4", "2", "#", "#", "#", "x", "y", "z">>
    /\ \E r \in 0..1 : Cardinality(MiddleTokens(RowAt(r).AllFiles)) > 1

\* get_seq_annotation_strings was called for a feature of the host whose
\* match set the cache holds.
SummaryCalled ==
    /\ call.op = "get_seq_annotation_strings"
    /\ gnps_data = "table"
    /\ gnps_ids.state = "set"
    /\ call.args \in Keys(feature_metadata)

\* C5: get_seq_annotation_strings on a feature whose cached match set is
\* empty returns the empty sequence; on a feature with n >= 1 matches it
\* returns 5 + n entries: the lines for parent mass, RTMean, LibraryID,
\* AllOrganisms and componentindex of the first match, then one entry per
\* match, in match-set order, whose text is the LibraryID of that match;
\* every entry's detail record carries 'gnps_link'.
C5_SummaryShape ==
    SummaryCalled =>
        LET pos == gnps_ids.ids[call.args]
            n == Len(pos)
            first == RowAt(pos[1])
            out == call.result
        IN /\ ~call.raised
           /\ n = 0 => out = <<>>
           /\ n >= 1 =>
                /\ Len(out) = 5 + n
                /\ out[1].text = "parent mass: " \o Str(first.parent_mass)
                /\ out[2].text = "RTMean: " \o Str(first.RTMean)
                /\ out[3].text = "LibraryID: " \o Str(first.LibraryID)
                /\ out[4].text = "AllOrganisms: " \o Str(first.AllOrganisms)
                /\ out[5].text = "componentindex: " \o Str(first.componentindex)
                /\ \A i \in 1..5 :
                      out[i].annotation.gnps_link = first.ProteoSAFeClusterLink
                /\ \A j \in 1..n :
                      /\ out[5 + j].text = Str(RowAt(pos[j]).LibraryID)
                      /\ out[5 + j].annotation.gnps_link =
                            RowAt(pos[j]).ProteoSAFeClusterLink
                /\ \A i \in 1..Len(out) : "gnps_link" \in DOMAIN out[i].annotation

\* A summary of two matches whose LibraryIDs differ: seven entries.
C5_Witness ==
    /\ SummaryCalled
    /\ Len(call.result) = 7
    /\ call.result[6].text # call.result[7].text

\* The value of the column term_type in row r.
TermValue(r, term_type) ==
    IF term_type = "LibraryID" THEN RowAt(r).LibraryID ELSE RowAt(r).componentindex

\* C6: get_feature_terms returns, for each requested feature: the
\* single-element collection {"na"} when the feature has a match and every
\* match's value is the literal "N/A"; an empty collection when it has no
\* match; otherwise the distinct values of its matches that are not "N/A",
\* "N/A" never being among them.
C6_TermsPerFeature ==
    (call.op = "get_feature_terms" /\ ~call.raised) =>
        /\ DOMAIN call.result = Range(call.args.features)
        /\ \A f \in DOMAIN call.result :
              LET pos == gnps_ids.ids[f]
                  vals == {TermValue(pos[j], call.args.term_type) : j \in 1..Len(pos)}
                  got == call.result[f]
              IN /\ pos = <<>> => got.elems = {}
                 /\ (pos # <<>> /\ vals = {StrCell("N/A")}) =>
                       (got.type = "list" /\ got.elems = {StrCell("na")})
                 /\ (pos # <<>> /\ vals # {StrCell("N/A")}) =>
                       (got.type = "dict" /\ got.elems = vals \ {StrCell("N/A")})
                 /\ StrCell("N/A") \notin got.elems

\* Terms asked for two features: one whose matches are all "N/A", one with an
\* "N/A" match and a named one.
C6_Witness ==
    /\ call.op = "get_feature_terms" /\ ~call.raised
    /\ call.args.term_type = "LibraryID"
    /\ \E f, g \in DOMAIN call.result :
          /\ call.result[f].elems = {StrCell("na")}
          /\ Len(gnps_ids.ids[g]) = 2
          /\ call.result[g].type = "dict" /\ Cardinality(call.result[g].elems) = 1

\* C9: get_annotation_website returns the stored link with '&show=True'
\* appended when the detail record has a link field, and None, without
\* raising, when it has none; show_annotation_info then opens no browser tab
\* and does not raise.
C9_LinkResolution ==
    [][/\ call'.op = "get_annotation_website" =>
            /\ ~call'.raised
            /\ IF "gnps_link" \in DOMAIN call'.args
               THEN /\ ~call'.result.none
                    /\ call'.result.url = call'.args.gnps_link.s \o "&show=True"
               ELSE call'.result.none
       /\ (call'.op = "show_annotation_info" /\ "gnps_link" \notin DOMAIN call'.args) =>
            (~call'.raised /\ browser' = browser)
       /\ (call'.op = "show_annotation_info" /\ "gnps_link" \in DOMAIN call'.args) =>
            browser' = Append(browser, call'.args.gnps_link.s \o "&show=True")]_vars

\* show_annotation_info returned for a detail record without a link, after a
\* tab had been opened for one with a link: still that one tab.
C9_Witness ==
    /\ call.op = "show_annotation_info"
    /\ "gnps_link" \notin DOMAIN call.args
    /\ ~call.raised
    /\ Len(browser) = 1

====
